---- MODULE Spec2Model ----
(***************************************************************************)
(* Model of the Shopify <-> Scan2Ship integration:                         *)
(*   - the ORDERS_CREATE webhook and its order sync                        *)
(*     (app/routes/webhooks.orders.create.tsx),                            *)
(*   - the carrier rates endpoint (second half of                          *)
(*     app/routes/app.rates-sandbox.tsx).                                  *)
(* Every handler is split at its await points; each action is the code     *)
(* that runs between two awaits.                                           *)
(***************************************************************************)
EXTENDS Integers, Sequences, FiniteSets, TLC

\* ------------------------------------------------------------------------
\* Bounds
\* ------------------------------------------------------------------------
MaxDeliveries == 2

Deliveries == 1..MaxDeliveries

\* ------------------------------------------------------------------------
\* Program constants
\* ------------------------------------------------------------------------
maxRetries == 3
baseDelay == 1000
requiredCredits == 1

\* ------------------------------------------------------------------------
\* Inputs of the order sync
\* ------------------------------------------------------------------------
Shops == {"shop-a.myshopify.com"}

\* Payloads of the ORDERS_CREATE webhook.  id and order_number are distinct
\* fields of a Shopify order; the address fields are either present or null.
ShopifyOrders ==
  { [id |-> 9001, order_number |-> 1001, shipping_address |-> "ship", billing_address |-> "bill"],
    [id |-> 9002, order_number |-> 1002, shipping_address |-> "null", billing_address |-> "bill"],
    [id |-> 9003, order_number |-> 1003, shipping_address |-> "null", billing_address |-> "null"] }

NoOrder == [id |-> 0, order_number |-> 0, shipping_address |-> "null", billing_address |-> "null"]

Topics == {"ORDERS_CREATE", "ORDERS_UPDATED"}

\* Answers of GET /api/credits as seen by fetch.
CreditResponses ==
  { [kind |-> "network_error", balance |-> 0],
    [kind |-> "http_error",    balance |-> 0],
    [kind |-> "no_balance",    balance |-> 0],
    [kind |-> "ok",            balance |-> 0],
    [kind |-> "ok",            balance |-> 1] }

NoCredits == [kind |-> "none", balance |-> 0]

\* Outcomes of POST /api/orders as seen by fetch.
CreateFailures == {"network_error", "http_5xx", "http_4xx"}

NoError == [kind |-> "none", attempt |-> 0]
NoResponse == [status |-> 0, body |-> "none"]
NoResult == [orderId |-> 0, waybill |-> 0]

VARIABLES
  pc,              \* position of each webhook delivery's handler
  order,           \* payload of each delivery
  shop,            \* shop of each delivery
  credits,         \* answer of the credits query seen by each delivery
  attempt,         \* loop variable of retryWithBackoff
  lastError,       \* lastError of retryWithBackoff / error thrown by the sync
  delays,          \* delays slept by retryWithBackoff, in order
  creditCalls,     \* GET /api/credits requests issued by each delivery
  createCalls,     \* POST /api/orders requests issued by each delivery
  result,          \* result of createScan2ShipOrder
  response,        \* Response of the webhook action
  orderMappings,   \* mappings handed to storeOrderMapping, in order
  deadLetterQueue, \* entries handed to addToDeadLetterQueue, in order
  carrierOrders    \* orders the Carrier Backend has created, in order

syncVars == <<pc, order, shop, credits, attempt, lastError, delays, creditCalls,
              createCalls, result, response, orderMappings, deadLetterQueue,
              carrierOrders>>

\* State of the carrier rates endpoint (one checkout-time request).
VARIABLES
  SHOPIFY_API_SECRET, \* process.env.SHOPIFY_API_SECRET ("" when unset)
  backendUp,          \* FALSE once the Carrier Backend has stopped answering
  rPc,                \* position of the rates action
  rReq,               \* the request
  rCalls,             \* Carrier Backend calls settled so far, in order
  rRates,             \* the local variable rates
  rResp               \* the Response of the rates action

rateVars == <<SHOPIFY_API_SECRET, backendUp, rPc, rReq, rCalls, rRates, rResp>>

\* Inputs and verdicts of the two signature verifiers applied on their own.
VARIABLES
  vSignature,        \* the signature argument
  vSecret,           \* the secret argument
  vShopifyVerdict,   \* outcome of verifyShopifyHMAC, "none" before the call
  vScan2ShipVerdict  \* outcome of verifyScan2ShipHMAC, "none" before the call

verifyVars == <<vSignature, vSecret, vShopifyVerdict, vScan2ShipVerdict>>

\* The Platform (Shopify Admin API) and the local mapping updates.
VARIABLES
  fulfillmentOrders, \* fulfillment orders of each Platform order, by order id
  fulfillments,      \* fulfillments the Platform has created, in order
  mappingUpdates     \* updates handed to updateOrderMappingWithFulfillment

platformVars == <<fulfillmentOrders, fulfillments, mappingUpdates>>

\* State of the order-ready webhook (one notification).
VARIABLES
  SCAN2SHIP_WEBHOOK_SECRET, \* process.env.SCAN2SHIP_WEBHOOK_SECRET ("" when unset)
  hPc,                      \* position of the webhook action
  hReq,                     \* the request
  hParsed,                  \* TRUE once the body has been handed to JSON.parse
  hResp                     \* the Response of the webhook action

hookVars == <<SCAN2SHIP_WEBHOOK_SECRET, hPc, hReq, hParsed, hResp>>

\* State of the fulfillment write-back route (fulfillment.demo), per request.
VARIABLES
  wbPc,      \* position of each request
  wbReq,     \* the request
  wbOrderId, \* shopifyOrderId extracted by processFulfillment
  wbUnits,   \* fulfillment orders returned by fetchFulfillmentOrders
  wbCalls,   \* inputs of the fulfillmentCreate mutations issued, in order
  wbAnswer,  \* userErrors of the answer to the fulfillmentCreate mutation
  wbResp     \* the Response of the action

wbVars == <<wbPc, wbReq, wbOrderId, wbUnits, wbCalls, wbAnswer, wbResp>>

restVars == <<verifyVars, platformVars, hookVars, wbVars>>

vars == <<syncVars, rateVars, restVars>>

\* ------------------------------------------------------------------------
\* Pure functions of webhooks.orders.create.tsx
\* ------------------------------------------------------------------------
Pow2_Double(n) == 2 * n

\* Math.pow(2, n)
RECURSIVE Pow2(_)
Pow2(n) == IF n = 0 THEN 1 ELSE 2 * Pow2(n - 1)

Sufficient_AnyBalance(balance) == balance >= 0

\* sufficient: balance >= requiredCredits
Sufficient(balance) == balance >= requiredCredits

checkScan2ShipCredits_FailOpen(resp) ==
  IF resp.kind = "ok"
    THEN [balance |-> resp.balance, sufficient |-> Sufficient(resp.balance)]
    ELSE [balance |-> requiredCredits, sufficient |-> TRUE]

\* checkScan2ShipCredits: any failure of the query yields balance 0.
checkScan2ShipCredits(resp) ==
  IF resp.kind = "ok"
    THEN [balance |-> resp.balance, sufficient |-> Sufficient(resp.balance)]
    ELSE IF resp.kind = "no_balance"
      THEN [balance |-> 0, sufficient |-> Sufficient(0)]
      ELSE [balance |-> 0, sufficient |-> FALSE]

ResolveAddress_BillingFirst(o) ==
  IF o.billing_address # "null" THEN o.billing_address ELSE o.shipping_address

\* const address = shopifyOrder.shipping_address || shopifyOrder.billing_address
ResolveAddress(o) ==
  IF o.shipping_address # "null" THEN o.shipping_address ELSE o.billing_address

\* reference: `SHOPIFY-${shopifyOrder.order_number}`
OrderReference(o) == <<"SHOPIFY-", o.order_number>>

BackoffDelay_Constant(a) == baseDelay

\* const delay = baseDelay * Math.pow(2, attempt)
BackoffDelay(a) == baseDelay * Pow2(a)

IsFinalAttempt_OneMore(a) == a = maxRetries + 1

\* if (attempt === maxRetries) break
IsFinalAttempt(a) == a = maxRetries

addToDeadLetterQueue_Replace(queue, s, orderId, err) ==
  <<[shop |-> s, shopifyOrderId |-> orderId, error |-> err.kind, retryCount |-> 0]>>

\* addToDeadLetterQueue: the entry is built and handed to the queue.
addToDeadLetterQueue(queue, s, orderId, err) ==
  Append(queue, [shop |-> s, shopifyOrderId |-> orderId, error |-> err.kind,
                 retryCount |-> 0])

\* storeOrderMapping: the mapping is handed to the store.
storeOrderMapping(store, mapping) == Append(store, mapping)

\* The mapping built by syncOrderToScan2Ship after a successful creation.
CreatedMapping(s, o, res) ==
  [shop |-> s, shopifyOrderId |-> o.id, scan2shipOrderId |-> res.orderId,
   waybill |-> res.waybill, status |-> "created"]

\* `throw new Response()` at the end of the action (and for a missing admin).
AckResponse == [status |-> 200, body |-> ""]

SyncFailureResponse_Propagates(err) == [status |-> 500, body |-> err.kind]

\* What the action answers once syncOrderToScan2Ship has thrown err: the
\* catch block logs and falls through to the final `throw new Response()`.
SyncFailureResponse(err) == AckResponse

UnhandledTopicResponse == [status |-> 404, body |-> "Unhandled webhook topic"]

\* ------------------------------------------------------------------------
\* Inputs of the carrier rates endpoint
\* ------------------------------------------------------------------------
MaxRates == 2
MaxRequests == 2

Secrets == {"", "k1"}
Methods == {"POST", "GET"}

\* The X-Shopify-Hmac-Sha256 header.  An "hmac" signature is the base64
\* HMAC-SHA256 of a body ("this" request's or an "other" one) under a secret;
\* a "malformed" one decodes to a byte string of another length than a digest,
\* and so does a "not_base64" one (Buffer.from drops the characters that are
\* not base64).
Signatures ==
  { [kind |-> "absent",    secret |-> "", body |-> ""],
    [kind |-> "empty",     secret |-> "", body |-> ""],
    [kind |-> "malformed", secret |-> "", body |-> ""],
    [kind |-> "not_base64", secret |-> "", body |-> ""],
    [kind |-> "hmac",      secret |-> "k1", body |-> "this"],
    [kind |-> "hmac",      secret |-> "k2", body |-> "this"],
    [kind |-> "hmac",      secret |-> "k1", body |-> "other"],
    [kind |-> "hmac",      secret |-> "k2", body |-> "other"] }

Currencies == {"", "USD", "INR"}

\* Request bodies: not JSON, JSON without `rate`, a rate without `items`, a
\* rate without `origin`, and a complete rate.  currency "" is an absent one.
Bodies ==
  { [shape |-> "unparseable", currency |-> ""],
    [shape |-> "no_rate",     currency |-> ""] }
  \cup [shape : {"no_items", "no_origin", "complete"}, currency : Currencies]

RateRequests == [method : Methods, signature : Signatures, body : Bodies]

NoRequest == [method |-> "none", signature |-> [kind |-> "absent", secret |-> "", body |-> ""],
              body |-> [shape |-> "unparseable", currency |-> ""]]

\* Entries of the `rates` array of the Carrier Backend's answer: a well-formed
\* rate (price in minor units), a null entry, and an object without totalPrice
\* and currency.
BackendRates ==
  { [kind |-> "rate", serviceCode |-> "EXPRESS", totalPrice |-> 1250, currency |-> "INR",
     minDeliveryDate |-> 1, maxDeliveryDate |-> 2],
    [kind |-> "rate", serviceCode |-> "GROUND", totalPrice |-> 799, currency |-> "USD",
     minDeliveryDate |-> 4, maxDeliveryDate |-> 6],
    [kind |-> "null", serviceCode |-> "", totalPrice |-> 0, currency |-> "",
     minDeliveryDate |-> 0, maxDeliveryDate |-> 0],
    [kind |-> "no_price", serviceCode |-> "EXPRESS", totalPrice |-> 0, currency |-> "",
     minDeliveryDate |-> 1, maxDeliveryDate |-> 2] }

RateLists == UNION { [1..n -> BackendRates] : n \in 0..MaxRates }

\* Outcomes of a fetch against the Carrier Backend.
AnalyticsOutcomes == {"ok", "http_error", "network_error"}
CourierOutcomes == {"network_error", "http_error", "no_field", "empty", "services"}
ConfigOutcomes == {"ok", "http_error"}
RatesFailures == {"network_error", "http_error", "bad_json", "no_rates_field", "not_array"}

NoRateResponse == [status |-> 0, error |-> "none", rates |-> <<>>]

\* ------------------------------------------------------------------------
\* Inputs of the fulfillment write-back
\* ------------------------------------------------------------------------
PlatformOrderIds == {o.id : o \in ShopifyOrders}

\* Fulfillment orders the Platform may hold for order 9001 when a notification
\* arrives; the other orders have none.
UnitConfigs ==
  { <<>>,
    << [id |-> "fo-1", status |-> "CLOSED",
        lineItems |-> << [id |-> "li-1", quantity |-> 1, remainingQuantity |-> 0] >>] >>,
    << [id |-> "fo-1", status |-> "OPEN",
        lineItems |-> << [id |-> "li-1", quantity |-> 1, remainingQuantity |-> 1] >>] >>,
    << [id |-> "fo-1", status |-> "CLOSED",
        lineItems |-> << [id |-> "li-1", quantity |-> 1, remainingQuantity |-> 0] >>],
       [id |-> "fo-2", status |-> "OPEN",
        lineItems |-> << [id |-> "li-2", quantity |-> 3, remainingQuantity |-> 2],
                         [id |-> "li-3", quantity |-> 1, remainingQuantity |-> 0] >>],
       [id |-> "fo-3", status |-> "OPEN",
        lineItems |-> << [id |-> "li-4", quantity |-> 1, remainingQuantity |-> 1] >>] >> }

PlatformStates ==
  { [id \in PlatformOrderIds |-> IF id = 9001 THEN cfg ELSE <<>>] : cfg \in UnitConfigs }

\* Order references are <<prefix, suffix>>; NonDigits stands for a suffix that
\* is not a string of decimal digits, NoRef for an absent orderRef.
NonDigits == -1
NoRef == <<"", NonDigits>>

OrderRefs ==
  { <<"SHOPIFY-", 9001>>, <<"SHOPIFY-", 1001>>, <<"SHOPIFY-", 0>>,
    <<"SHOPIFY-", NonDigits>>, <<"ORDER-", 9001>> }

\* Bodies of an order-ready notification: parsed fields, "" for an absent one.
ReadyPayloads ==
  { [json |-> FALSE, orderRef |-> NoRef, trackingNumber |-> "", carrier |-> "", url |-> ""],
    [json |-> TRUE, orderRef |-> NoRef, trackingNumber |-> "1Z999", carrier |-> "UPS", url |-> ""],
    [json |-> TRUE, orderRef |-> <<"SHOPIFY-", 9001>>, trackingNumber |-> "", carrier |-> "UPS", url |-> ""],
    [json |-> TRUE, orderRef |-> <<"SHOPIFY-", 9001>>, trackingNumber |-> "1Z999", carrier |-> "", url |-> ""],
    [json |-> TRUE, orderRef |-> <<"SHOPIFY-", 9001>>, trackingNumber |-> "1Z999", carrier |-> "UPS",
     url |-> "https://track/1Z999"] }
  \cup { [json |-> TRUE, orderRef |-> ref, trackingNumber |-> "1Z999", carrier |-> "UPS", url |-> ""] :
           ref \in OrderRefs }

NoPayload == [json |-> FALSE, orderRef |-> NoRef, trackingNumber |-> "", carrier |-> "", url |-> ""]

Notifications ==
  [method : Methods, shop : {"", "shop-a.myshopify.com"}, signature : Signatures,
   payload : ReadyPayloads]

NoNotification == [method |-> "none", shop |-> "", signature |-> NoRequest.signature,
                   payload |-> NoPayload]

\* Requests to the write-back route; the session of authenticate.admin gives
\* the shop.
Requests == 1..MaxRequests

WriteBacks == [method : Methods, shop : Shops, payload : ReadyPayloads]

NoWriteBack == [method |-> "none", shop |-> "", payload |-> NoPayload]

NoWbResponse == [status |-> 0, success |-> FALSE, error |-> "none", message |-> <<>>]

\* userErrors of a rejected fulfillmentCreate.
UserErrorLists ==
  { << "Fulfillment order is not open" >>,
    << "Invalid tracking number", "Line item already fulfilled" >> }

\* A null `fulfillment` in the mutation's answer, and its trackingInfo.
NoFulfillment == 0
NoTracking == [company |-> "", number |-> "", url |-> ""]

FetchOutcomes == {"ok", "network_error"}

CreateOutcomes ==
  {[kind |-> "accepted", userErrors |-> <<>>],
   [kind |-> "no_fulfillment", userErrors |-> <<>>],
   [kind |-> "network_error", userErrors |-> <<>>]}
  \cup {[kind |-> "rejected", userErrors |-> errs] : errs \in UserErrorLists}

NoHookResponse == [status |-> 0, success |-> FALSE, error |-> "none", message |-> "none"]

\* ------------------------------------------------------------------------
\* Initial state
\* ------------------------------------------------------------------------
SyncInit ==
  /\ pc = [d \in Deliveries |-> "idle"]
  /\ order = [d \in Deliveries |-> NoOrder]
  /\ shop = [d \in Deliveries |-> "none"]
  /\ credits = [d \in Deliveries |-> NoCredits]
  /\ attempt = [d \in Deliveries |-> 0]
  /\ lastError = [d \in Deliveries |-> NoError]
  /\ delays = [d \in Deliveries |-> <<>>]
  /\ creditCalls = [d \in Deliveries |-> 0]
  /\ createCalls = [d \in Deliveries |-> 0]
  /\ result = [d \in Deliveries |-> NoResult]
  /\ response = [d \in Deliveries |-> NoResponse]
  /\ orderMappings = <<>>
  /\ deadLetterQueue = <<>>
  /\ carrierOrders = <<>>

RatesIdle ==
  /\ backendUp = TRUE
  /\ rPc = "idle"
  /\ rReq = NoRequest
  /\ rCalls = <<>>
  /\ rRates = <<>>
  /\ rResp = NoRateResponse

RatesInit ==
  /\ SHOPIFY_API_SECRET \in Secrets
  /\ RatesIdle

VerifyIdle ==
  /\ vSignature = NoRequest.signature
  /\ vSecret = ""
  /\ vShopifyVerdict = "none"
  /\ vScan2ShipVerdict = "none"

PlatformInit ==
  /\ fulfillmentOrders \in PlatformStates
  /\ fulfillments = <<>>
  /\ mappingUpdates = <<>>

PlatformIdle ==
  /\ fulfillmentOrders = [id \in PlatformOrderIds |-> <<>>]
  /\ fulfillments = <<>>
  /\ mappingUpdates = <<>>

HookIdle ==
  /\ hPc = "idle"
  /\ hReq = NoNotification
  /\ hParsed = FALSE
  /\ hResp = NoHookResponse

WbIdle ==
  /\ wbPc = [q \in Requests |-> "idle"]
  /\ wbReq = [q \in Requests |-> NoWriteBack]
  /\ wbOrderId = [q \in Requests |-> NonDigits]
  /\ wbUnits = [q \in Requests |-> <<>>]
  /\ wbCalls = [q \in Requests |-> <<>>]
  /\ wbAnswer = [q \in Requests |-> <<>>]
  /\ wbResp = [q \in Requests |-> NoWbResponse]

RestIdle ==
  /\ VerifyIdle
  /\ PlatformIdle
  /\ SCAN2SHIP_WEBHOOK_SECRET = "k1"
  /\ HookIdle
  /\ WbIdle

Init == SyncInit /\ SHOPIFY_API_SECRET = "k1" /\ RatesIdle /\ RestIdle

RatesSpecInit == SyncInit /\ RatesInit /\ RestIdle

\* ------------------------------------------------------------------------
\* The ORDERS_CREATE webhook
\* ------------------------------------------------------------------------
\* syncOrderToScan2Ship's catch block followed by the action's catch block:
\* the entry is handed to the dead letter queue, the error is swallowed and
\* the action ends with its final Response.
FailSync(d, err) ==
  /\ deadLetterQueue' = addToDeadLetterQueue(deadLetterQueue, shop[d], order[d].id, err)
  /\ lastError' = [lastError EXCEPT ![d] = err]
  /\ response' = [response EXCEPT ![d] = SyncFailureResponse(err)]
  /\ pc' = [pc EXCEPT ![d] = "done"]

\* action, up to the first await of syncOrderToScan2Ship.
Receive(d, s, topic, admin, hasPayload, o) ==
  /\ pc[d] = "idle"
  /\ shop' = [shop EXCEPT ![d] = s]
  /\ IF ~admin
       THEN /\ response' = [response EXCEPT ![d] = AckResponse]
            /\ pc' = [pc EXCEPT ![d] = "done"]
            /\ UNCHANGED <<order, creditCalls>>
       ELSE IF topic # "ORDERS_CREATE"
         THEN /\ response' = [response EXCEPT ![d] = UnhandledTopicResponse]
              /\ pc' = [pc EXCEPT ![d] = "done"]
              /\ UNCHANGED <<order, creditCalls>>
         ELSE IF ~hasPayload
           THEN /\ response' = [response EXCEPT ![d] = AckResponse]
                /\ pc' = [pc EXCEPT ![d] = "done"]
                /\ UNCHANGED <<order, creditCalls>>
           ELSE /\ order' = [order EXCEPT ![d] = o]
                /\ creditCalls' = [creditCalls EXCEPT ![d] = @ + 1]
                /\ pc' = [pc EXCEPT ![d] = "credits"]
                /\ UNCHANGED response
  /\ UNCHANGED <<credits, attempt, lastError, delays, createCalls, result,
                 orderMappings, deadLetterQueue, carrierOrders>>
  /\ UNCHANGED <<rateVars, restVars>>

\* The credits query settles: checkScan2ShipCredits returns, the order is
\* mapped and retryWithBackoff issues the first createScan2ShipOrder call.
CreditsSettled(d, resp) ==
  /\ pc[d] = "credits"
  /\ credits' = [credits EXCEPT ![d] = resp]
  /\ IF ~checkScan2ShipCredits(resp).sufficient
       THEN /\ FailSync(d, [kind |-> "insufficient_credits", attempt |-> 0])
            /\ UNCHANGED <<attempt, createCalls>>
       ELSE IF ResolveAddress(order[d]) = "null"
         THEN /\ FailSync(d, [kind |-> "missing_address", attempt |-> 0])
              /\ UNCHANGED <<attempt, createCalls>>
         ELSE /\ attempt' = [attempt EXCEPT ![d] = 0]
              /\ createCalls' = [createCalls EXCEPT ![d] = @ + 1]
              /\ pc' = [pc EXCEPT ![d] = "create"]
              /\ UNCHANGED <<lastError, response, deadLetterQueue>>
  /\ UNCHANGED <<order, shop, delays, creditCalls, result, orderMappings,
                 carrierOrders>>
  /\ UNCHANGED <<rateVars, restVars>>

\* POST /api/orders succeeds: the backend has created a carrier order, the
\* mapping is stored and the action acknowledges.
CreateSucceeded(d) ==
  /\ pc[d] = "create"
  /\ LET res == [orderId |-> Len(carrierOrders) + 1, waybill |-> Len(carrierOrders) + 1]
     IN /\ carrierOrders' = Append(carrierOrders,
                                   [orderId |-> res.orderId,
                                    reference |-> OrderReference(order[d]),
                                    address |-> ResolveAddress(order[d]),
                                    shopifyOrderId |-> order[d].id])
        /\ result' = [result EXCEPT ![d] = res]
        /\ orderMappings' = storeOrderMapping(orderMappings,
                                              CreatedMapping(shop[d], order[d], res))
  /\ response' = [response EXCEPT ![d] = AckResponse]
  /\ pc' = [pc EXCEPT ![d] = "done"]
  /\ UNCHANGED <<order, shop, credits, attempt, lastError, delays, creditCalls,
                 createCalls, deadLetterQueue>>
  /\ UNCHANGED <<rateVars, restVars>>

\* POST /api/orders fails: the catch block of retryWithBackoff.
CreateFailed(d, kind) ==
  /\ pc[d] = "create"
  /\ LET err == [kind |-> kind, attempt |-> attempt[d]]
     IN IF IsFinalAttempt(attempt[d])
          THEN /\ FailSync(d, err)
               /\ UNCHANGED delays
          ELSE /\ lastError' = [lastError EXCEPT ![d] = err]
               /\ delays' = [delays EXCEPT ![d] = Append(@, BackoffDelay(attempt[d]))]
               /\ pc' = [pc EXCEPT ![d] = "backoff"]
               /\ UNCHANGED <<response, deadLetterQueue>>
  /\ UNCHANGED <<order, shop, credits, attempt, creditCalls, createCalls, result,
                 orderMappings, carrierOrders>>
  /\ UNCHANGED <<rateVars, restVars>>

\* The backoff timer fires: attempt++ and the operation is called again.
BackoffElapsed(d) ==
  /\ pc[d] = "backoff"
  /\ attempt' = [attempt EXCEPT ![d] = @ + 1]
  /\ createCalls' = [createCalls EXCEPT ![d] = @ + 1]
  /\ pc' = [pc EXCEPT ![d] = "create"]
  /\ UNCHANGED <<order, shop, credits, lastError, delays, creditCalls, result,
                 response, orderMappings, deadLetterQueue, carrierOrders>>
  /\ UNCHANGED <<rateVars, restVars>>

\* ------------------------------------------------------------------------
\* The carrier rates endpoint (app/routes/app.rates-sandbox.tsx)
\* ------------------------------------------------------------------------
\* verifyShopifyHMAC.  timingSafeEqual throws a RangeError when its two
\* buffers differ in length, which is the case of a malformed signature.
verifyShopifyHMAC(signature, secret) ==
  IF signature.kind \in {"absent", "empty"} \/ secret = ""
    THEN "false"
    ELSE IF signature.kind \in {"malformed", "not_base64"}
      THEN "throws"
      ELSE IF signature.secret = secret /\ signature.body = "this"
        THEN "true"
        ELSE "false"

\* (rate.totalPrice / 100).toFixed(2); a missing totalPrice gives "NaN".
ToMajorUnits(r) ==
  IF r.kind = "no_price"
    THEN [nan |-> TRUE, major |-> 0, cents |-> 0]
    ELSE [nan |-> FALSE, major |-> r.totalPrice \div 100, cents |-> r.totalPrice % 100]

\* One element of data.rates.map(...).
TransformRate(r) ==
  [service_code |-> r.serviceCode, total_price |-> ToMajorUnits(r),
   currency |-> r.currency, min_delivery_date |-> r.minDeliveryDate,
   max_delivery_date |-> r.maxDeliveryDate]

\* data.rates.map(...): reading a property of a null entry throws.
TransformThrows(list) == \E i \in 1..Len(list) : list[i].kind = "null"

TransformRates(list) == [i \in 1..Len(list) |-> TransformRate(list[i])]

getFallbackRate_NoDefault(currency) ==
  [service_code |-> "STANDARD",
   total_price |-> [nan |-> FALSE, major |-> 9, cents |-> 99],
   currency |-> currency,
   min_delivery_date |-> 3, max_delivery_date |-> 7]

\* getFallbackRate: currency || "USD", a window of 3 to 7 days from now.
getFallbackRate(currency) ==
  [service_code |-> "STANDARD",
   total_price |-> [nan |-> FALSE, major |-> 9, cents |-> 99],
   currency |-> IF currency = "" THEN "USD" ELSE currency,
   min_delivery_date |-> 3, max_delivery_date |-> 7]

\* getScan2ShipCourierServices: data.courierServices || [], and [] on any
\* failure of the query.
getScan2ShipCourierServices(outcome) ==
  IF outcome = "services" THEN <<"courier-1">> ELSE <<>>

trackAnalyticsThrows_Propagates(outcome) == outcome = "network_error"

\* trackAnalytics: the fetch is awaited inside try/catch and its answer is
\* never read, so no outcome of the call reaches the caller.
trackAnalyticsThrows(outcome) == FALSE

Settled(endpoint, kind, list) == [endpoint |-> endpoint, kind |-> kind, rates |-> list]

\* The outer catch of the action: the fallback rate in USD, status 200.
RespondOuterCatch ==
  /\ rResp' = [status |-> 200, error |-> "none", rates |-> <<getFallbackRate("")>>]
  /\ rPc' = "done"
  /\ UNCHANGED <<rCalls, rRates>>

\* The inner catch of the action: the fallback rate in the request's currency,
\* then the fallback_rate_used analytics call.
EnterFallback ==
  /\ rRates' = <<getFallbackRate(rReq.body.currency)>>
  /\ rPc' = "track_fallback"
  /\ UNCHANGED rResp

\* action, up to the first await (the rate_requested analytics call).
RateReceive(req) ==
  /\ rPc = "idle"
  /\ rReq' = req
  /\ IF req.method # "POST"
       THEN /\ rResp' = [status |-> 405, error |-> "Method not allowed", rates |-> <<>>]
            /\ rPc' = "done"
            /\ UNCHANGED <<rCalls, rRates>>
       ELSE LET verdict == verifyShopifyHMAC(req.signature, SHOPIFY_API_SECRET)
            IN IF verdict = "throws"
                 THEN RespondOuterCatch
                 ELSE IF verdict = "false"
                   THEN /\ rResp' = [status |-> 401, error |-> "Unauthorized", rates |-> <<>>]
                        /\ rPc' = "done"
                        /\ UNCHANGED <<rCalls, rRates>>
                   ELSE IF req.body.shape \in {"unparseable", "no_rate", "no_items"}
                     THEN RespondOuterCatch
                     ELSE /\ rPc' = "track_request"
                          /\ UNCHANGED <<rCalls, rRates, rResp>>
  /\ UNCHANGED <<SHOPIFY_API_SECRET, backendUp>>
  /\ UNCHANGED <<syncVars, restVars>>

\* trackAnalytics("rate_requested") settles; its outcome is ignored and
\* getScan2ShipRates asks for the courier services.
TrackRequestSettled(outcome) ==
  /\ rPc = "track_request"
  /\ backendUp
  /\ rCalls' = Append(rCalls, Settled("analytics", outcome, <<>>))
  /\ IF trackAnalyticsThrows(outcome)
       THEN /\ rResp' = [status |-> 200, error |-> "none", rates |-> <<getFallbackRate("")>>]
            /\ rPc' = "done"
            /\ UNCHANGED rRates
       ELSE /\ rPc' = "courier"
            /\ UNCHANGED <<rRates, rResp>>
  /\ UNCHANGED <<SHOPIFY_API_SECRET, backendUp, rReq>>
  /\ UNCHANGED <<syncVars, restVars>>

\* GET /api/courier-services settles.
CourierSettled(outcome) ==
  /\ rPc = "courier"
  /\ backendUp
  /\ rCalls' = Append(rCalls, Settled("courier-services", outcome, <<>>))
  /\ IF Len(getScan2ShipCourierServices(outcome)) # 0
       THEN /\ rPc' = "config"
            /\ UNCHANGED <<rRates, rResp>>
       ELSE EnterFallback
  /\ UNCHANGED <<SHOPIFY_API_SECRET, backendUp, rReq>>
  /\ UNCHANGED <<syncVars, restVars>>

\* GET /api/order-config settles; the rate request is built (which reads
\* rate.origin.country) and POST /api/rates is issued.
ConfigSettled(outcome) ==
  /\ rPc = "config"
  /\ backendUp
  /\ rCalls' = Append(rCalls, Settled("order-config", outcome, <<>>))
  /\ IF rReq.body.shape = "no_origin"
       THEN EnterFallback
       ELSE /\ rPc' = "rates"
            /\ UNCHANGED <<rRates, rResp>>
  /\ UNCHANGED <<SHOPIFY_API_SECRET, backendUp, rReq>>
  /\ UNCHANGED <<syncVars, restVars>>

\* POST /api/rates fails, or its answer has no usable `rates` array.
RatesFailed(kind) ==
  /\ rPc = "rates"
  /\ backendUp
  /\ rCalls' = Append(rCalls, Settled("rates", kind, <<>>))
  /\ EnterFallback
  /\ UNCHANGED <<SHOPIFY_API_SECRET, backendUp, rReq>>
  /\ UNCHANGED <<syncVars, restVars>>

\* POST /api/rates answers with a `rates` array.
RatesAnswered(list) ==
  /\ rPc = "rates"
  /\ backendUp
  /\ rCalls' = Append(rCalls, Settled("rates", "ok", list))
  /\ IF TransformThrows(list) \/ Len(TransformRates(list)) = 0
       THEN EnterFallback
       ELSE /\ rRates' = TransformRates(list)
            /\ rResp' = [status |-> 200, error |-> "none", rates |-> TransformRates(list)]
            /\ rPc' = "done"
  /\ UNCHANGED <<SHOPIFY_API_SECRET, backendUp, rReq>>
  /\ UNCHANGED <<syncVars, restVars>>

\* trackAnalytics("fallback_rate_used") settles; json({ rates }).
TrackFallbackSettled(outcome) ==
  /\ rPc = "track_fallback"
  /\ backendUp
  /\ rCalls' = Append(rCalls, Settled("analytics", outcome, <<>>))
  /\ rResp' = [status |-> 200, error |-> "none",
               rates |-> IF trackAnalyticsThrows(outcome)
                           THEN <<getFallbackRate("")>> ELSE rRates]
  /\ rPc' = "done"
  /\ UNCHANGED <<SHOPIFY_API_SECRET, backendUp, rReq, rRates>>
  /\ UNCHANGED <<syncVars, restVars>>

\* The Carrier Backend stops answering: requests in flight never settle.
BackendStops ==
  /\ backendUp
  /\ backendUp' = FALSE
  /\ UNCHANGED <<SHOPIFY_API_SECRET, rPc, rReq, rCalls, rRates, rResp>>
  /\ UNCHANGED <<syncVars, restVars>>

\* The continuations of the rates action.
RatesStep ==
  \/ \E outcome \in AnalyticsOutcomes : TrackRequestSettled(outcome)
  \/ \E outcome \in CourierOutcomes : CourierSettled(outcome)
  \/ \E outcome \in ConfigOutcomes : ConfigSettled(outcome)
  \/ \E kind \in RatesFailures : RatesFailed(kind)
  \/ \E list \in RateLists : RatesAnswered(list)
  \/ \E outcome \in AnalyticsOutcomes : TrackFallbackSettled(outcome)

RatesNext ==
  \/ \E req \in RateRequests : RateReceive(req)
  \/ RatesStep
  \/ BackendStops

RatesSpec == RatesSpecInit /\ [][RatesNext]_vars

FairRatesSpec == RatesSpec /\ WF_vars(RatesStep)

\* ------------------------------------------------------------------------
\* The signature verifiers as pure functions
\* ------------------------------------------------------------------------
VerifierSecrets == {"", "k1", "k2", "k3"}

\* verifyScan2ShipHMAC (order-ready webhook): the same code as
\* verifyShopifyHMAC, timingSafeEqual included.
verifyScan2ShipHMAC(signature, secret) ==
  IF signature.kind \in {"absent", "empty"} \/ secret = ""
    THEN "false"
    ELSE IF signature.kind \in {"malformed", "not_base64"}
      THEN "throws"
      ELSE IF signature.secret = secret /\ signature.body = "this"
        THEN "true"
        ELSE "false"

VerifyInit ==
  /\ SyncInit /\ SHOPIFY_API_SECRET = "k1" /\ RatesIdle
  /\ vSignature \in Signatures
  /\ vSecret \in VerifierSecrets
  /\ vShopifyVerdict = "none"
  /\ vScan2ShipVerdict = "none"
  /\ PlatformIdle
  /\ SCAN2SHIP_WEBHOOK_SECRET = "k1"
  /\ HookIdle
  /\ WbIdle

ApplyShopifyVerifier ==
  /\ vShopifyVerdict = "none"
  /\ vShopifyVerdict' = verifyShopifyHMAC(vSignature, vSecret)
  /\ UNCHANGED <<vSignature, vSecret, vScan2ShipVerdict>>
  /\ UNCHANGED <<syncVars, rateVars, platformVars, hookVars, wbVars>>

ApplyScan2ShipVerifier ==
  /\ vScan2ShipVerdict = "none"
  /\ vScan2ShipVerdict' = verifyScan2ShipHMAC(vSignature, vSecret)
  /\ UNCHANGED <<vSignature, vSecret, vShopifyVerdict>>
  /\ UNCHANGED <<syncVars, rateVars, platformVars, hookVars, wbVars>>

VerifyNext == ApplyShopifyVerifier \/ ApplyScan2ShipVerifier

VerifySpec == VerifyInit /\ [][VerifyNext]_vars

\* ------------------------------------------------------------------------
\* The order-ready webhook (scan2ship.webhooks.order-ready)
\* ------------------------------------------------------------------------
\* extractShopifyOrderId: /^SHOPIFY-(\d+)$/ then parseInt; null is NonDigits.
extractShopifyOrderId(orderRef) ==
  IF orderRef[1] = "SHOPIFY-" /\ orderRef[2] # NonDigits THEN orderRef[2] ELSE NonDigits

MissingRequiredFields_OnlyRef(payload) == payload.orderRef = NoRef

\* !payload.orderRef || !payload.trackingNumber || !payload.carrier
MissingRequiredFields(payload) ==
  payload.orderRef = NoRef \/ payload.trackingNumber = "" \/ payload.carrier = ""

\* if (signature && process.env.SCAN2SHIP_WEBHOOK_SECRET)
SignatureIsChecked(signature, secret) ==
  signature.kind \notin {"absent", "empty"} /\ secret # ""

HookRespond(resp, parsed) ==
  /\ hResp' = resp
  /\ hParsed' = parsed
  /\ hPc' = "done"

\* The whole action: it awaits only the request body.
ReadyReceive(req) ==
  /\ hPc = "idle"
  /\ hReq' = req
  /\ LET checked == SignatureIsChecked(req.signature, SCAN2SHIP_WEBHOOK_SECRET)
         verdict == verifyScan2ShipHMAC(req.signature, SCAN2SHIP_WEBHOOK_SECRET)
     IN
     IF req.method # "POST"
       THEN HookRespond([status |-> 405, success |-> FALSE, error |-> "Method not allowed",
                         message |-> ""], FALSE)
     ELSE IF req.shop = ""
       THEN HookRespond([status |-> 400, success |-> FALSE, error |-> "Missing shop domain",
                         message |-> ""], FALSE)
     ELSE IF checked /\ verdict = "throws"
       THEN HookRespond([status |-> 500, success |-> FALSE, error |-> "Internal server error",
                         message |-> "Input buffers must have the same byte length"], FALSE)
     ELSE IF checked /\ verdict = "false"
       THEN HookRespond([status |-> 401, success |-> FALSE, error |-> "Unauthorized",
                         message |-> ""], FALSE)
     ELSE IF ~req.payload.json
       THEN HookRespond([status |-> 500, success |-> FALSE, error |-> "Internal server error",
                         message |-> "Unexpected token in JSON"], TRUE)
     ELSE IF MissingRequiredFields(req.payload)
       THEN HookRespond([status |-> 400, success |-> FALSE, error |-> "Missing required fields",
                         message |-> ""], TRUE)
     ELSE HookRespond([status |-> 200, success |-> TRUE, error |-> "",
                       message |-> "Fulfillment data received"], TRUE)
  /\ UNCHANGED <<SCAN2SHIP_WEBHOOK_SECRET, platformVars>>
  /\ UNCHANGED <<syncVars, rateVars, verifyVars, wbVars>>

HookInit ==
  /\ SyncInit /\ SHOPIFY_API_SECRET = "k1" /\ RatesIdle
  /\ VerifyIdle
  /\ PlatformInit
  /\ SCAN2SHIP_WEBHOOK_SECRET \in Secrets
  /\ HookIdle
  /\ WbIdle

HookNext == \E req \in Notifications : ReadyReceive(req)

HookSpec == HookInit /\ [][HookNext]_vars

\* ------------------------------------------------------------------------
\* The fulfillment write-back (fulfillment.server.ts behind fulfillment.demo)
\* ------------------------------------------------------------------------
\* fulfillmentOrders.find(fo => fo.status === 'OPEN'): index of the first
\* open fulfillment order, 0 when there is none.
FirstOpenIndex_Last(units) ==
  LET open == {i \in DOMAIN units : units[i].status = "OPEN"}
  IN IF open = {} THEN 0 ELSE CHOOSE i \in open : \A j \in open : j <= i

FirstOpenIndex(units) ==
  LET open == {i \in DOMAIN units : units[i].status = "OPEN"}
  IN IF open = {} THEN 0 ELSE CHOOSE i \in open : \A j \in open : i <= j

\* lineItems.filter(item => item.remainingQuantity > 0)
\*          .map(item => ({id, quantity: item.remainingQuantity}))
RECURSIVE RemainingLineItems(_)
RemainingLineItems(items) ==
  IF items = <<>> THEN <<>>
  ELSE LET item == Head(items)
           rest == RemainingLineItems(Tail(items))
       IN IF item.remainingQuantity > 0
            THEN <<[id |-> item.id, quantity |-> item.remainingQuantity]>> \o rest
            ELSE rest

\* notifyCustomer: fulfillmentInput.notifyCustomer || true
NotifyCustomer(flag) == flag \/ TRUE

\* The variables of the fulfillmentCreate mutation for a fulfillment order.
FulfillmentInput(unit, data) ==
  [fulfillmentOrderId |-> unit.id,
   tracking |-> [company |-> data.carrier, number |-> data.trackingNumber, url |-> data.url],
   notifyCustomer |-> NotifyCustomer(TRUE),
   lineItems |-> RemainingLineItems(unit.lineItems)]

JoinMessages_First(msgs) == <<Head(msgs)>>

\* errors.map(e => e.message).join(', ')
RECURSIVE JoinMessages(_)
JoinMessages(msgs) ==
  IF msgs = <<>> THEN <<>>
  ELSE IF Len(msgs) = 1 THEN msgs
  ELSE <<Head(msgs), ", ">> \o JoinMessages(Tail(msgs))

\* What createFulfillment makes of the mutation's answer: it throws on
\* userErrors and on a missing fulfillment, else returns id and trackingInfo.
createFulfillmentThrows_IgnoresAnswer(answer) == FALSE

createFulfillmentThrows(answer) ==
  Len(answer.userErrors) > 0 \/ answer.fulfillment = NoFulfillment

createFulfillmentError(answer) ==
  IF Len(answer.userErrors) > 0
    THEN <<"Fulfillment creation failed: ">> \o JoinMessages(answer.userErrors)
    ELSE <<"No fulfillment returned from GraphQL mutation">>

\* parseInt(orderRef.replace('SHOPIFY-', ''), 10); NaN is NonDigits.
ParseOrderNumber(orderRef) ==
  IF orderRef[1] = "SHOPIFY-" THEN orderRef[2] ELSE NonDigits

updateOrderMappingWithFulfillment(updates, s, shopifyOrderId, fulfillmentId, trackingInfo) ==
  Append(updates, [shop |-> s, shopifyOrderId |-> shopifyOrderId,
                   fulfillmentId |-> fulfillmentId, trackingInfo |-> trackingInfo,
                   status |-> "fulfilled"])

WbFailure(msg) ==
  [status |-> 500, success |-> FALSE, error |-> "Fulfillment creation failed", message |-> msg]

WbRespond(q, resp) ==
  /\ wbResp' = [wbResp EXCEPT ![q] = resp]
  /\ wbPc' = [wbPc EXCEPT ![q] = "done"]

\* action up to the first Platform query of processFulfillment.
WbReceive(q, req) ==
  /\ wbPc[q] = "idle"
  /\ q > 1 => wbPc[q - 1] # "idle"
  /\ wbReq' = [wbReq EXCEPT ![q] = req]
  /\ LET id == extractShopifyOrderId(req.payload.orderRef) IN
     IF req.method # "POST"
       THEN /\ WbRespond(q, [status |-> 405, success |-> FALSE, error |-> "Method not allowed",
                             message |-> <<>>])
            /\ UNCHANGED wbOrderId
     ELSE IF ~req.payload.json
       THEN /\ WbRespond(q, WbFailure(<<"Unexpected token in JSON">>))
            /\ UNCHANGED wbOrderId
     ELSE IF MissingRequiredFields(req.payload)
       THEN /\ WbRespond(q, [status |-> 400, success |-> FALSE,
                             error |-> "Missing required fields", message |-> <<>>])
            /\ UNCHANGED wbOrderId
     ELSE IF id = NonDigits \/ id = 0
       THEN /\ WbRespond(q, WbFailure(<<"Invalid order reference format">>))
            /\ wbOrderId' = [wbOrderId EXCEPT ![q] = id]
     ELSE /\ wbOrderId' = [wbOrderId EXCEPT ![q] = id]
          /\ wbPc' = [wbPc EXCEPT ![q] = "fetch"]
          /\ UNCHANGED wbResp
  /\ UNCHANGED <<wbUnits, wbCalls, wbAnswer>>
  /\ UNCHANGED <<platformVars, verifyVars, hookVars>>
  /\ UNCHANGED <<syncVars, rateVars>>

\* fetchFulfillmentOrders settles; processFulfillment selects the fulfillment
\* order and issues the mutation.
WbFetchSettled(q, outcome) ==
  /\ wbPc[q] = "fetch"
  /\ LET units == IF wbOrderId[q] \in PlatformOrderIds
                    THEN fulfillmentOrders[wbOrderId[q]] ELSE <<>>
         k == FirstOpenIndex(units)
     IN
     IF outcome = "network_error"
       THEN /\ WbRespond(q, WbFailure(<<"fetch failed">>))
            /\ UNCHANGED <<wbUnits, wbCalls>>
     ELSE IF Len(units) = 0
       THEN /\ WbRespond(q, WbFailure(<<"No fulfillment orders found">>))
            /\ wbUnits' = [wbUnits EXCEPT ![q] = units]
            /\ UNCHANGED wbCalls
     ELSE IF k = 0
       THEN /\ WbRespond(q, WbFailure(<<"No open fulfillment orders found">>))
            /\ wbUnits' = [wbUnits EXCEPT ![q] = units]
            /\ UNCHANGED wbCalls
     ELSE /\ wbUnits' = [wbUnits EXCEPT ![q] = units]
          /\ wbCalls' = [wbCalls EXCEPT ![q] =
                           Append(@, FulfillmentInput(units[k], wbReq[q].payload))]
          /\ wbPc' = [wbPc EXCEPT ![q] = "create"]
          /\ UNCHANGED wbResp
  /\ UNCHANGED <<wbReq, wbOrderId, wbAnswer>>
  /\ UNCHANGED <<platformVars, verifyVars, hookVars>>
  /\ UNCHANGED <<syncVars, rateVars>>

\* The Platform's side of fulfillmentCreate: it fulfils the named quantities
\* of a fulfillment order and closes it.
Fulfil(units, input) ==
  [i \in DOMAIN units |->
     IF units[i].id = input.fulfillmentOrderId
       THEN [units[i] EXCEPT
               !.status = "CLOSED",
               !.lineItems = [j \in DOMAIN units[i].lineItems |->
                                [units[i].lineItems[j] EXCEPT !.remainingQuantity = 0]]]
       ELSE units[i]]

\* The fulfillmentCreate mutation settles; on success the action updates the
\* mapping and answers.  The Platform accepts only while the fulfillment
\* order is open.
WbCreateSettled(q, outcome) ==
  /\ wbPc[q] = "create"
  /\ LET input == wbCalls[q][Len(wbCalls[q])]
         id == wbOrderId[q]
         stillOpen == \E i \in DOMAIN fulfillmentOrders[id] :
                        /\ fulfillmentOrders[id][i].id = input.fulfillmentOrderId
                        /\ fulfillmentOrders[id][i].status = "OPEN"
         newId == Len(fulfillments) + 1
         answer == [userErrors |-> outcome.userErrors,
                    fulfillment |-> IF outcome.kind = "accepted" THEN newId ELSE NoFulfillment,
                    trackingInfo |-> IF outcome.kind = "accepted" THEN input.tracking
                                     ELSE NoTracking]
     IN
     /\ outcome.kind = "accepted" => stillOpen
     /\ wbAnswer' = [wbAnswer EXCEPT ![q] = answer.userErrors]
     /\ IF outcome.kind = "accepted"
          THEN /\ fulfillments' = Append(fulfillments,
                                         [id |-> newId,
                                          fulfillmentOrderId |-> input.fulfillmentOrderId,
                                          trackingInfo |-> input.tracking,
                                          notifyCustomer |-> input.notifyCustomer,
                                          lineItems |-> input.lineItems])
               /\ fulfillmentOrders' = [fulfillmentOrders EXCEPT ![id] = Fulfil(@, input)]
          ELSE UNCHANGED <<fulfillments, fulfillmentOrders>>
     /\ IF outcome.kind = "network_error"
          THEN /\ WbRespond(q, WbFailure(<<"fetch failed">>))
               /\ UNCHANGED mappingUpdates
        ELSE IF createFulfillmentThrows(answer)
          THEN /\ WbRespond(q, WbFailure(createFulfillmentError(answer)))
               /\ UNCHANGED mappingUpdates
        ELSE /\ mappingUpdates' =
                  updateOrderMappingWithFulfillment(mappingUpdates, wbReq[q].shop,
                    ParseOrderNumber(wbReq[q].payload.orderRef),
                    answer.fulfillment, answer.trackingInfo)
             /\ WbRespond(q, [status |-> 200, success |-> TRUE, error |-> "",
                              message |-> <<"Fulfillment created successfully">>])
  /\ UNCHANGED <<wbReq, wbOrderId, wbUnits, wbCalls>>
  /\ UNCHANGED <<verifyVars, hookVars>>
  /\ UNCHANGED <<syncVars, rateVars>>

WriteBackInit ==
  /\ SyncInit /\ SHOPIFY_API_SECRET = "k1" /\ RatesIdle
  /\ VerifyIdle
  /\ PlatformInit
  /\ SCAN2SHIP_WEBHOOK_SECRET = "k1"
  /\ HookIdle
  /\ WbIdle

WbStep(q) ==
  \/ \E req \in WriteBacks : WbReceive(q, req)
  \/ \E outcome \in FetchOutcomes : WbFetchSettled(q, outcome)
  \/ \E outcome \in CreateOutcomes : WbCreateSettled(q, outcome)

WriteBackNext == \E q \in Requests : WbStep(q)

WriteBackSpec == WriteBackInit /\ [][WriteBackNext]_vars

\* One notification to the webhook and one request to the write-back route.
ReadyInit ==
  /\ SyncInit /\ SHOPIFY_API_SECRET = "k1" /\ RatesIdle
  /\ VerifyIdle
  /\ PlatformInit
  /\ SCAN2SHIP_WEBHOOK_SECRET \in Secrets
  /\ HookIdle
  /\ WbIdle

ReadyNext == HookNext \/ WbStep(1)

ReadySpec == ReadyInit /\ [][ReadyNext]_vars

SyncStep(d) ==
  \/ \E resp \in CreditResponses : CreditsSettled(d, resp)
  \/ CreateSucceeded(d)
  \/ \E kind \in CreateFailures : CreateFailed(d, kind)
  \/ BackoffElapsed(d)

ReceiveAny(d) ==
  \E s \in Shops, topic \in Topics, admin \in BOOLEAN, hasPayload \in BOOLEAN,
     o \in ShopifyOrders : Receive(d, s, topic, admin, hasPayload, o)

Next ==
  \/ \E d \in Deliveries : ReceiveAny(d)
  \/ \E d \in Deliveries : SyncStep(d)

Spec == Init /\ [][Next]_vars

\* Deliveries handled one after the other: a delivery is received only when
\* no other handler is in flight.
NoneInFlight == \A d \in Deliveries : pc[d] \in {"idle", "done"}

ReceiveNext(d) == NoneInFlight /\ ReceiveAny(d)

SeqNext ==
  \/ \E d \in Deliveries : ReceiveNext(d)
  \/ \E d \in Deliveries : SyncStep(d)

SeqSpec == Init /\ [][SeqNext]_vars

\* ------------------------------------------------------------------------
\* Properties
\* ------------------------------------------------------------------------
Synced(d) == pc[d] = "done" /\ order[d] # NoOrder
SyncSucceeded(d) == Synced(d) /\ result[d] # NoResult
SyncFailed(d) == Synced(d) /\ result[d] = NoResult
SameOrder(d, e) == order[d] # NoOrder /\ order[d] = order[e] /\ shop[d] = shop[e]
Dispatching(d) == pc[d] \in {"create", "backoff"}

MappingRows(s, id) ==
  {i \in DOMAIN orderMappings :
     orderMappings[i].shop = s /\ orderMappings[i].shopifyOrderId = id}

DeadLetters(s, id) ==
  {i \in DOMAIN deadLetterQueue :
     deadLetterQueue[i].shop = s /\ deadLetterQueue[i].shopifyOrderId = id}

HasLiveMapping(s, id) ==
  \E i \in MappingRows(s, id) : orderMappings[i].status # "failed"

\* C1: once a mapping with a status other than failed exists for a
\* (shop, order id), a later delivery of the same order is a no-op: it adds
\* no mapping row (so there is exactly one) and makes no order-creation call.
C1_RedeliveryIsNoOp ==
  [][\A s \in Shops, o \in ShopifyOrders :
       HasLiveMapping(s, o.id) =>
         /\ Cardinality(MappingRows(s, o.id)') = 1
         /\ \A d \in Deliveries :
              (order'[d] = o /\ shop'[d] = s) => createCalls'[d] = createCalls[d]]_vars

\* C2: two deliveries of the same order never dispatch to the Carrier
\* Backend at the same time, and never both obtain a carrier order: they
\* converge on a single carrier order and a single mapping.
C2_ConcurrentDeliveriesConverge ==
  \A d, e \in Deliveries :
    (d # e /\ SameOrder(d, e)) =>
      /\ ~(Dispatching(d) /\ Dispatching(e))
      /\ ~(result[d] # NoResult /\ result[e] # NoResult)
      /\ Cardinality(MappingRows(shop[d], order[d].id)) <= 1

\* C3: whatever the outcome of the sync (success, insufficient credits,
\* missing address, retries exhausted), the webhook answers 200 with an empty
\* body, and a failed sync has handed its error to the dead letter queue.
C3_AlwaysAcknowledged ==
  \A d \in Deliveries :
    Synced(d) =>
      /\ response[d].status = 200
      /\ response[d].body = ""
      /\ SyncFailed(d) =>
           \E i \in DeadLetters(shop[d], order[d].id) :
             deadLetterQueue[i].error = lastError[d].kind

C3_Witness ==
  \E d, e \in Deliveries :
    /\ SyncSucceeded(d)
    /\ SyncFailed(e) /\ lastError[e].kind = "http_5xx" /\ createCalls[e] = maxRetries + 1

\* C4: a credit balance below the required credits per order means no
\* order-creation call, no retry (one credits query, no backoff delay) and an
\* insufficient-credits entry in the dead letter queue.
C4_AdmissionControl ==
  \A d \in Deliveries :
    (credits[d].kind = "ok" /\ credits[d].balance < requiredCredits) =>
      /\ pc[d] = "done"
      /\ createCalls[d] = 0
      /\ creditCalls[d] = 1
      /\ delays[d] = <<>>
      /\ \E i \in DeadLetters(shop[d], order[d].id) :
           deadLetterQueue[i].error = "insufficient_credits"

C4_Witness ==
  \E d \in Deliveries :
    /\ credits[d].kind = "ok" /\ credits[d].balance = 0
    /\ pc[d] = "done" /\ deadLetterQueue # <<>>

\* C5: when every order-creation attempt fails, the order has exactly one
\* dead letter entry, its retryCount is the configured maximum number of
\* retries, and the order's mapping has status failed.
C5_ExhaustionRecorded ==
  \A d \in Deliveries :
    (SyncFailed(d) /\ createCalls[d] = maxRetries + 1) =>
      /\ Cardinality(DeadLetters(shop[d], order[d].id)) = 1
      /\ \A i \in DeadLetters(shop[d], order[d].id) :
           deadLetterQueue[i].retryCount = maxRetries
      /\ \E i \in MappingRows(shop[d], order[d].id) : orderMappings[i].status = "failed"

\* C6: two failed attempts followed by a successful third one: exactly three
\* order-creation calls, delays of 1000 ms then 2000 ms, a mapping with status
\* created carrying the returned carrier order id, and no dead letter entry
\* written by this sync (the entries of the order are those of its failed
\* syncs).
C6_ThirdAttemptSucceeds ==
  \A d \in Deliveries :
    (SyncSucceeded(d) /\ attempt[d] = 2) =>
      /\ createCalls[d] = 3
      /\ delays[d] = <<1000, 2000>>
      /\ \E i \in MappingRows(shop[d], order[d].id) :
           /\ orderMappings[i].status = "created"
           /\ orderMappings[i].scan2shipOrderId = result[d].orderId
           /\ \E j \in DOMAIN carrierOrders : carrierOrders[j].orderId = result[d].orderId
      /\ Cardinality(DeadLetters(shop[d], order[d].id))
           = Cardinality({e \in Deliveries : SyncFailed(e) /\ SameOrder(d, e)})

C6_Witness ==
  \E d \in Deliveries :
    SyncSucceeded(d) /\ attempt[d] = 2 /\ lastError[d].kind = "network_error"

\* C7: retryWithBackoff calls the operation at most maxRetries+1 times; it
\* stops at the first success (the handler is done, with one call per attempt
\* started); when all maxRetries+1 calls fail it throws the error of the last
\* attempt, having slept maxRetries times and not after the final failure.
C7_RetryEngine ==
  \A d \in Deliveries :
    /\ createCalls[d] <= maxRetries + 1
    /\ Len(delays[d]) <= maxRetries
    /\ result[d] # NoResult =>
         (pc[d] = "done" /\ createCalls[d] = attempt[d] + 1 /\ Len(delays[d]) = attempt[d])
    /\ (SyncFailed(d) /\ lastError[d].kind \in CreateFailures) =>
         /\ createCalls[d] = maxRetries + 1
         /\ lastError[d].attempt = maxRetries
         /\ Len(delays[d]) = maxRetries
    /\ (pc[d] = "create" /\ attempt[d] = maxRetries) => createCalls[d] = maxRetries + 1

C7_Witness ==
  \E d \in Deliveries :
    /\ SyncFailed(d) /\ createCalls[d] = maxRetries + 1
    /\ lastError[d] = [kind |-> "http_4xx", attempt |-> maxRetries]

\* ---- carrier rates endpoint ----
Verified ==
  rReq.method = "POST" /\ verifyShopifyHMAC(rReq.signature, SHOPIFY_API_SECRET) = "true"

RequestCurrency == IF rReq.body.currency = "" THEN "USD" ELSE rReq.body.currency

IsSingleFallback(rates, currency) ==
  /\ Len(rates) = 1
  /\ rates[1].service_code = "STANDARD"
  /\ rates[1].total_price = [nan |-> FALSE, major |-> 9, cents |-> 99]
  /\ rates[1].currency = currency

CourierQueryFailed ==
  \E i \in DOMAIN rCalls :
    rCalls[i].endpoint = "courier-services" /\ rCalls[i].kind # "services"

MalformedRates(list) == \E i \in DOMAIN list : list[i].kind # "rate"

RateCallFailed ==
  \E i \in DOMAIN rCalls :
    /\ rCalls[i].endpoint = "rates"
    /\ \/ rCalls[i].kind \in RatesFailures
       \/ rCalls[i].rates = <<>>
       \/ MalformedRates(rCalls[i].rates)

\* C8: if the courier-service query fails or returns no services, or the rate
\* call throws or returns a malformed or empty result, the answer is exactly
\* one static fallback quote in the request's currency (USD when absent).
C8_FallbackGuarantee ==
  (rPc = "done" /\ (CourierQueryFailed \/ RateCallFailed)) =>
    /\ rResp.status = 200
    /\ IsSingleFallback(rResp.rates, RequestCurrency)

\* C9: getRates always completes: a request that is being handled is
\* eventually answered, also when the Carrier Backend stops responding.
C9_GetRatesCompletes == (rPc # "idle") ~> (rPc = "done")

ValidSignature(signature, secret) ==
  signature.kind = "hmac" /\ secret # "" /\ signature.secret = secret /\ signature.body = "this"

\* C11: a POST rate request whose signature header is absent, empty or not
\* the HMAC of its body under the configured secret is answered 401 at once,
\* with no Carrier Backend call and no rates.
C11_BadSignatureUnauthorized ==
  (rPc # "idle" /\ rReq.method = "POST"
     /\ ~ValidSignature(rReq.signature, SHOPIFY_API_SECRET)) =>
    /\ rPc = "done"
    /\ rResp.status = 401
    /\ rResp.rates = <<>>
    /\ rCalls = <<>>

\* C12: both verifiers answer with a boolean for every input, never raise,
\* and answer true exactly for the HMAC of the body under the given secret.
C12_VerifiersNeverRaise ==
  /\ vShopifyVerdict # "none" =>
       /\ vShopifyVerdict \in {"true", "false"}
       /\ (vShopifyVerdict = "true") = ValidSignature(vSignature, vSecret)
  /\ vScan2ShipVerdict # "none" =>
       /\ vScan2ShipVerdict \in {"true", "false"}
       /\ (vScan2ShipVerdict = "true") = ValidSignature(vSignature, vSecret)

\* ---- order-ready webhook ----
HookAccepted == hPc = "done" /\ hResp.status = 200 /\ hResp.success

HasOpenUnit(id) ==
  /\ id \in PlatformOrderIds
  /\ \E i \in DOMAIN fulfillmentOrders[id] : fulfillmentOrders[id][i].status = "OPEN"

UnitIdsOf(id) == {fulfillmentOrders[id][i].id : i \in DOMAIN fulfillmentOrders[id]}

\* C13: with a webhook secret configured, a notification is accepted (200,
\* processed) only if it carries a signature that verifies against the secret.
C13_SecretMeansVerified ==
  (HookAccepted /\ SCAN2SHIP_WEBHOOK_SECRET # "") =>
    ValidSignature(hReq.signature, SCAN2SHIP_WEBHOOK_SECRET)

\* C14: a notification whose signature fails verification is answered 401,
\* its payload is not parsed, and the response carries no exception message.
C14_FailedVerificationIs401 ==
  (hPc = "done" /\ hReq.method = "POST" /\ hReq.shop # ""
     /\ SignatureIsChecked(hReq.signature, SCAN2SHIP_WEBHOOK_SECRET)
     /\ ~ValidSignature(hReq.signature, SCAN2SHIP_WEBHOOK_SECRET)) =>
    /\ hResp.status = 401
    /\ ~hParsed
    /\ hResp.message = ""

\* C15: when the webhook answers success for a notification that references
\* an order with an open fulfillment unit, a fulfillment of that order exists
\* on the Platform and the order's mapping has been updated to fulfilled.
C15_SuccessMeansFulfilled ==
  LET id == extractShopifyOrderId(hReq.payload.orderRef) IN
  (HookAccepted /\ HasOpenUnit(id)) =>
    /\ \E i \in DOMAIN fulfillments : fulfillments[i].fulfillmentOrderId \in UnitIdsOf(id)
    /\ \E i \in DOMAIN mappingUpdates :
         mappingUpdates[i].shopifyOrderId = id /\ mappingUpdates[i].status = "fulfilled"

\* ---- fulfillment write-back ----
OpenUnits(units) == {i \in DOMAIN units : units[i].status = "OPEN"}

WbFetched(q) == wbPc[q] \in {"create", "done"} /\ wbUnits[q] # <<>>

WbSucceeded(q) == wbPc[q] = "done" /\ wbResp[q].success

\* C16: a write-back for an order whose fulfillment orders are all closed
\* issues no fulfillmentCreate mutation and ends in a non-fatal outcome: the
\* request is not answered as a failure.
C16_NoOpenUnitIsNotFatal ==
  \A q \in Requests :
    (WbFetched(q) /\ OpenUnits(wbUnits[q]) = {}) =>
      /\ wbCalls[q] = <<>>
      /\ wbPc[q] = "done"
      /\ wbResp[q].status # 500
      /\ wbResp[q].error # "Fulfillment creation failed"

C18_MappingOnlyAfterConfirmation ==
  /\ \A i \in DOMAIN mappingUpdates :
       /\ mappingUpdates[i].status = "fulfilled"
       /\ \E j \in DOMAIN fulfillments :
            /\ fulfillments[j].id = mappingUpdates[i].fulfillmentId
            /\ fulfillments[j].trackingInfo = mappingUpdates[i].trackingInfo
  /\ Len(mappingUpdates) = Cardinality({q \in Requests : WbSucceeded(q)})

\* One write-back was confirmed and updated the mapping; another one's create
\* was rejected by the Platform.
C18_Witness ==
  /\ Len(mappingUpdates) = 1
  /\ \E q \in Requests : WbSucceeded(q)
  /\ \E q \in Requests :
       /\ wbPc[q] = "done"
       /\ ~wbResp[q].success
       /\ wbCalls[q] # <<>>
       /\ wbResp[q].message[1] = "Fulfillment creation failed: "

\* C19: a write-back carrying the reference the sync sends for an order looks
\* up that order on the Platform, and its mapping update names that order.
C19_ReferenceRoundTrip ==
  \A q \in Requests : \A o \in ShopifyOrders :
    (wbPc[q] \in {"fetch", "create", "done"} /\ wbReq[q].method = "POST"
       /\ wbReq[q].payload.json /\ ~MissingRequiredFields(wbReq[q].payload)
       /\ wbReq[q].payload.orderRef = OrderReference(o)) =>
      /\ wbOrderId[q] = o.id
      /\ ParseOrderNumber(wbReq[q].payload.orderRef) = o.id

\* C20: the mapping store holds at most one mapping per (shop, order id); a
\* mapping with a carrier order id has status created or fulfilled; a mapping
\* update with a fulfillment id has status fulfilled.
C20_MappingStoreInvariant ==
  /\ \A i, j \in DOMAIN orderMappings :
       (orderMappings[i].shop = orderMappings[j].shop
          /\ orderMappings[i].shopifyOrderId = orderMappings[j].shopifyOrderId) => i = j
  /\ \A i \in DOMAIN orderMappings :
       orderMappings[i].scan2shipOrderId # NoResult.orderId =>
         orderMappings[i].status \in {"created", "fulfilled"}
  /\ \A i \in DOMAIN mappingUpdates :
       mappingUpdates[i].fulfillmentId # NoFulfillment =>
         mappingUpdates[i].status = "fulfilled"

\* ---- payload validation ----
LacksField(payload) ==
  payload.json /\ (payload.orderRef = NoRef \/ payload.trackingNumber = "" \/ payload.carrier = "")

HookReachedValidation ==
  /\ hPc = "done" /\ hReq.method = "POST" /\ hReq.shop # ""
  /\ SignatureIsChecked(hReq.signature, SCAN2SHIP_WEBHOOK_SECRET) =>
       ValidSignature(hReq.signature, SCAN2SHIP_WEBHOOK_SECRET)

\* C21: an order-ready notification without order reference, tracking number
\* or carrier is answered 400, and nothing is done for it: no Platform query,
\* no fulfillmentCreate, no mapping update.
C21_MissingFieldsRejected ==
  /\ (HookReachedValidation /\ LacksField(hReq.payload)) =>
       /\ hResp.status = 400 /\ ~hResp.success
       /\ (\A q \in Requests : wbPc[q] = "idle") =>
            (fulfillments = <<>> /\ mappingUpdates = <<>>)
  /\ \A q \in Requests :
       (wbPc[q] # "idle" /\ wbReq[q].method = "POST" /\ LacksField(wbReq[q].payload)) =>
         /\ wbPc[q] = "done"
         /\ wbResp[q].status = 400 /\ ~wbResp[q].success
         /\ wbOrderId[q] = NonDigits
         /\ wbUnits[q] = <<>>
         /\ wbCalls[q] = <<>>
         /\ Len(mappingUpdates) = Cardinality({r \in Requests : WbSucceeded(r)})

\* Both handlers have rejected a payload that has a reference and a carrier
\* but no tracking number.
C21_Witness ==
  /\ HookReachedValidation
  /\ hReq.payload.json /\ hReq.payload.orderRef # NoRef /\ hReq.payload.trackingNumber = ""
  /\ hResp.status = 400
  /\ wbPc[1] = "done" /\ wbReq[1].method = "POST"
  /\ wbReq[1].payload.json /\ wbReq[1].payload.orderRef # NoRef
  /\ wbReq[1].payload.trackingNumber = ""
  /\ wbResp[1].status = 400

\* ---- backoff schedule ----
RECURSIVE SumSeq(_)
SumSeq(q) == IF q = <<>> THEN 0 ELSE Head(q) + SumSeq(Tail(q))

BackoffSchedule == <<1000, 2000, 4000>>

\* C22: the delay slept before retry k is baseDelay * 2^(k-1): 1000, 2000 and
\* 4000 ms in that order, and one dispatch never sleeps more than 7000 ms.
C22_BackoffSchedule ==
  \A d \in Deliveries :
    /\ Len(delays[d]) <= Len(BackoffSchedule)
    /\ \A k \in DOMAIN delays[d] : delays[d][k] = BackoffSchedule[k]
    /\ SumSeq(delays[d]) <= 7000
    /\ pc[d] = "backoff" => Len(delays[d]) = attempt[d] + 1
    /\ pc[d] = "create" => Len(delays[d]) = attempt[d]

\* A dispatch has slept the whole schedule and is in its last attempt.
C22_Witness ==
  \E d \in Deliveries :
    /\ pc[d] = "create"
    /\ delays[d] = BackoffSchedule
    /\ SumSeq(delays[d]) = 7000

\* ---- failures of the dispatch ----
\* C23: an order-creation call answered with a 4xx status ends the dispatch
\* at once: one call, no backoff delay, and the order is dead-lettered.
C23_NonRetryableAbortsAtOnce ==
  \A d \in Deliveries :
    lastError[d].kind = "http_4xx" =>
      /\ SyncFailed(d)
      /\ createCalls[d] = 1
      /\ delays[d] = <<>>
      /\ DeadLetters(shop[d], order[d].id) # {}

NoAddress(o) == o.shipping_address = "null" /\ o.billing_address = "null"

FailedSyncsOf(s, o) == {d \in Deliveries : SyncFailed(d) /\ shop[d] = s /\ order[d] = o}

\* C25: each failed sync writes exactly one dead letter entry for its
\* (shop, order), a successful sync writes none, and entries once written
\* are never changed or removed.
C25_OneEntryPerFailedSync ==
  [][/\ Len(deadLetterQueue) <= Len(deadLetterQueue')
     /\ SubSeq(deadLetterQueue', 1, Len(deadLetterQueue)) = deadLetterQueue
     /\ \A s \in Shops, o \in ShopifyOrders :
          Cardinality(DeadLetters(s, o.id)') = Cardinality(FailedSyncsOf(s, o)')
     /\ Len(deadLetterQueue') = Cardinality({d \in Deliveries : SyncFailed(d)'})]_vars

\* Two syncs of the same order have failed, one after retries and one
\* without, and the queue holds an entry for each.
C25_Witness ==
  \E d, e \in Deliveries :
    /\ d # e /\ SameOrder(d, e)
    /\ SyncFailed(d) /\ delays[d] # <<>>
    /\ SyncFailed(e) /\ delays[e] = <<>>
    /\ Len(deadLetterQueue) = 2

\* ---- rejected fulfillments ----
\* C26: when the answer to fulfillmentCreate carries userErrors, the
\* write-back fails with one error whose message combines all their messages,
\* the mutation is not issued again, and the mapping is not updated.
C26_UserErrorsAggregated ==
  \A q \in Requests :
    wbAnswer[q] # <<>> =>
      /\ wbPc[q] = "done"
      /\ ~wbResp[q].success
      /\ wbResp[q].status = 500
      /\ wbResp[q].message[1] = "Fulfillment creation failed: "
      /\ Len(wbResp[q].message) = 2 * Len(wbAnswer[q])
      /\ \A i \in DOMAIN wbAnswer[q] : wbResp[q].message[2 * i] = wbAnswer[q][i]
      /\ \A i \in 2..Len(wbAnswer[q]) : wbResp[q].message[2 * i - 1] = ", "
      /\ Len(wbCalls[q]) = 1
      /\ Len(mappingUpdates) = Cardinality({r \in Requests : WbSucceeded(r)})

\* A fulfillmentCreate was answered with two userErrors.
C26_Witness ==
  \E q \in Requests :
    /\ wbPc[q] = "done"
    /\ Len(wbAnswer[q]) = 2
    /\ mappingUpdates = <<>>

\* ---- analytics ----
IsAnalytics(call) == call.endpoint = "analytics"
IsBackendQuery(call) == call.endpoint # "analytics"

BackendQueries == SelectSeq(rCalls, IsBackendQuery)
AnalyticsCalls == SelectSeq(rCalls, IsAnalytics)

UsableRates(calls) ==
  /\ calls # <<>>
  /\ calls[Len(calls)].endpoint = "rates"
  /\ calls[Len(calls)].kind = "ok"
  /\ calls[Len(calls)].rates # <<>>
  /\ \A i \in DOMAIN calls[Len(calls)].rates : calls[Len(calls)].rates[i].kind # "null"

\* C28: the response to a rate request is determined by the request and by
\* the answers to the courier-services, order-config and rates queries alone:
\* whatever the outcomes of the analytics calls, it is status 200 with the
\* transformed rates of the Carrier Backend when these are usable and with
\* the fallback rate in the request's currency otherwise.
C28_AnalyticsDoNotAffectRates ==
  (rPc = "done" /\ AnalyticsCalls # <<>>) =>
    /\ rResp.status = 200
    /\ IF UsableRates(BackendQueries)
         THEN rResp.rates = TransformRates(BackendQueries[Len(BackendQueries)].rates)
         ELSE IsSingleFallback(rResp.rates, RequestCurrency)

\* Both analytics calls of a request have thrown, and the request, which
\* names a currency other than USD, was answered with the fallback rate.
C28_Witness ==
  /\ rPc = "done"
  /\ Len(AnalyticsCalls) = 2
  /\ \A i \in DOMAIN AnalyticsCalls : AnalyticsCalls[i].kind = "network_error"
  /\ RequestCurrency # "USD"
  /\ rResp.rates # <<>>

\* ---- order references ----
WellFormedReference(ref) == ref[1] = "SHOPIFY-" /\ ref[2] # NonDigits

InvalidReferenceAnswer(q) ==
  wbPc[q] = "done" /\ wbResp[q].message = <<"Invalid order reference format">>

\* C27: a write-back fails as an invalid reference, before any Platform
\* query, exactly when its reference is not SHOPIFY-<decimal digits>; every
\* reference of that form is accepted and parsed to its number.
C27_InvalidReferenceIffMalformed ==
  \A q \in Requests :
    (wbPc[q] # "idle" /\ wbReq[q].method = "POST" /\ wbReq[q].payload.json
       /\ ~MissingRequiredFields(wbReq[q].payload)) =>
      LET ref == wbReq[q].payload.orderRef IN
      /\ WellFormedReference(ref) => (~InvalidReferenceAnswer(q) /\ wbOrderId[q] = ref[2])
      /\ ~WellFormedReference(ref) =>
           (InvalidReferenceAnswer(q) /\ wbUnits[q] = <<>> /\ wbCalls[q] = <<>>)

\* ---- mapping lifecycle ----
StatusesOf(s, id) == {orderMappings[i].status : i \in MappingRows(s, id)}

\* C29: a mapping is Pending from the moment its order is accepted and while
\* it is dispatched, Created once the carrier order exists, Failed (with a
\* dead letter entry) once the retries are exhausted; the sync never writes
\* Fulfilled and the write-back writes nothing but Fulfilled.
C29_MappingLifecycle ==
  /\ \A i \in DOMAIN orderMappings : orderMappings[i].status \in {"pending", "created", "failed"}
  /\ \A i \in DOMAIN mappingUpdates : mappingUpdates[i].status = "fulfilled"
  /\ \A d \in Deliveries :
       /\ Dispatching(d) =>
            StatusesOf(shop[d], order[d].id) \cap {"pending", "created"} # {}
       /\ SyncSucceeded(d) => "created" \in StatusesOf(shop[d], order[d].id)
       /\ (SyncFailed(d) /\ lastError[d].kind \in CreateFailures) =>
            /\ StatusesOf(shop[d], order[d].id) \cap {"failed", "created"} # {}
            /\ DeadLetters(shop[d], order[d].id) # {}

\* ---- admission control on a failed credits query ----
CreditsQueryFailed(d) == credits[d].kind \in {"network_error", "http_error", "no_balance"}

\* C30: when the credits query fails or its answer has no balance, the
\* balance counts as 0: no order-creation call, no backoff, and the order is
\* dead-lettered as insufficient credits; every delivery issues the credits
\* query at most once.
C30_AdmissionFailsClosed ==
  \A d \in Deliveries :
    /\ creditCalls[d] <= 1
    /\ CreditsQueryFailed(d) =>
         /\ SyncFailed(d)
         /\ creditCalls[d] = 1
         /\ createCalls[d] = 0
         /\ delays[d] = <<>>
         /\ lastError[d].kind = "insufficient_credits"
         /\ \E i \in DeadLetters(shop[d], order[d].id) :
              deadLetterQueue[i].error = "insufficient_credits"
         /\ MappingRows(shop[d], order[d].id) # {} =>
              \E e \in Deliveries : SameOrder(d, e) /\ SyncSucceeded(e)

\* One delivery met a network error on the credits query and another an
\* answer with an error status; both were dead-lettered without any call.
C30_Witness ==
  \E d, e \in Deliveries :
    /\ credits[d].kind = "network_error" /\ SyncFailed(d)
    /\ credits[e].kind = "http_error" /\ SyncFailed(e)
    /\ Len(deadLetterQueue) = 2
    /\ carrierOrders = <<>>

====
